---- MODULE Spec2Model ----
(***************************************************************************)
(* Model of the address resolution engines of dmarc-rs: the Ip record,     *)
(* the IpList container, the resolution capabilities, the sequential       *)
(* solver and the thread-based fan-out/fan-in pipeline (queue, fan_out,    *)
(* fan_in) with the dispatcher that selects between them.                  *)
(***************************************************************************)
EXTENDS Integers, Sequences, FiniteSets, Bags, TLC

(* ----------------------------- bounds ---------------------------------- *)

\* Longest input list explored.
MaxLen == 3

\* num_cpus::get(): the host's logical core count.
MaxThreads == 2
MaxParts == 3

(* --------------------------- addresses --------------------------------- *)

\* std::net::IpAddr values: the family (V4 before V6) and the numeric value.
A1111 == [fam |-> 4, num |-> 1]
A192 == [fam |-> 4, num |-> 2]
A2001 == [fam |-> 6, num |-> 1]
A2606 == [fam |-> 6, num |-> 2]

Addrs == {A1111, A192, A2001}

\* IpAddr::to_string(): the textual form of an address.
to_string(a) ==
    CASE a = A1111 -> "1.1.1.1"
      [] a = A192 -> "192.0.2.1"
      [] a = A2001 -> "2001:db8::1"
      [] a = A2606 -> "2606:4700:4700::1111"

\* The text of the std::io::Error a failed reverse lookup carries.
ErrText == "failed to lookup address information"

\* dns_lookup::lookup_addr(): 1.1.1.1 has a PTR record, 192.0.2.1 has none
\* (the resolver hands back the address's own text), and the lookup of
\* 2001:db8::1 fails.
lookup_addr(a) ==
    CASE a = A1111 -> [ok |-> TRUE, val |-> "one.one.one.one"]
      [] a = A192 -> [ok |-> TRUE, val |-> to_string(a)]
      [] a = A2001 -> [ok |-> FALSE, val |-> ErrText]
      [] a = A2606 -> [ok |-> TRUE, val |-> "one.one.one.one"]

\* Byte-wise order of the strings that occur as names (String: Ord).
NameRank(s) ==
    CASE s = "" -> 0
      [] s = "1.1.1.1" -> 1
      [] s = "192.0.2.1" -> 2
      [] s = "2001:db8::1" -> 3
      [] s = "2606:4700:4700::1111" -> 4
      [] s = "dumb.host.name" -> 5
      [] s = "failed to lookup address information" -> 6
      [] s = "foo.bar.invalid" -> 7
      [] s = "one.one.one.one" -> 8
      [] s = "some.host.invalid" -> 9

\* The address literals a caller writes: four well-formed, two malformed.
Literals ==
    {"1.1.1.1", "192.0.2.1", "2001:db8::1", "2606:4700:4700::1111",
     "333.0.0.0", "foobar"}

\* Mutant of parse: an octet above 255 is accepted.
parse_AnyOctet(s) ==
    CASE s = "1.1.1.1" -> [ok |-> TRUE, val |-> A1111]
      [] s = "192.0.2.1" -> [ok |-> TRUE, val |-> A192]
      [] s = "2001:db8::1" -> [ok |-> TRUE, val |-> A2001]
      [] s = "2606:4700:4700::1111" -> [ok |-> TRUE, val |-> A2606]
      [] s = "333.0.0.0" -> [ok |-> TRUE, val |-> [fam |-> 4, num |-> 333]]
      [] OTHER -> [ok |-> FALSE, val |-> A1111]

\* s.parse::<IpAddr>(): the address a well-formed literal denotes, or an
\* error.
parse(s) ==
    CASE s = "1.1.1.1" -> [ok |-> TRUE, val |-> A1111]
      [] s = "192.0.2.1" -> [ok |-> TRUE, val |-> A192]
      [] s = "2001:db8::1" -> [ok |-> TRUE, val |-> A2001]
      [] s = "2606:4700:4700::1111" -> [ok |-> TRUE, val |-> A2606]
      [] OTHER -> [ok |-> FALSE, val |-> A1111]

\* Mutant of AddrLess: the V6 addresses come first.
AddrLess_V6First(a, b) == a.fam > b.fam \/ (a.fam = b.fam /\ a.num < b.num)

\* IpAddr: Ord. Every V4 address is below every V6 address.
AddrLess(a, b) == a.fam < b.fam \/ (a.fam = b.fam /\ a.num < b.num)

(* ------------------------------ Ip ------------------------------------- *)

\* struct Ip { ip, name }
Ip(a, n) == [ip |-> a, name |-> n]

\* Ip::new(): a record with an empty name.
IpNew(a) == Ip(a, "")

\* Ip: Ord, by address then by name.
IpLess(x, y) ==
    AddrLess(x.ip, y.ip) \/ (x.ip = y.ip /\ NameRank(x.name) < NameRank(y.name))

\* Mutant of IpSolve: the looked-up text is kept even when it is the address.
IpSolve_NoSentinel(x) == Ip(x.ip, lookup_addr(x.ip).val)

\* Ip::solve(): never fails; no PTR gives the sentinel, an error its text.
IpSolve(x) ==
    LET r == lookup_addr(x.ip)
    IN  IF r.ok
        THEN IF to_string(x.ip) = r.val
             THEN Ip(x.ip, "some.host.invalid")
             ELSE Ip(x.ip, r.val)
        ELSE Ip(x.ip, r.val)

(* ----------------------------- IpList ---------------------------------- *)

RECURSIVE Insert(_, _)
\* One step of the stable sort: x goes after every element not above it.
Insert(x, s) ==
    IF s = <<>> THEN <<x>>
    ELSE IF IpLess(x, Head(s)) THEN <<x>> \o s
    ELSE <<Head(s)>> \o Insert(x, Tail(s))

RECURSIVE SortFrom(_, _)
SortFrom(s, acc) ==
    IF s = <<>> THEN acc ELSE SortFrom(Tail(s), Insert(Head(s), acc))

\* Vec::sort(): stable, by Ip's order.
Sort(s) == SortFrom(s, <<>>)

\* The lists a caller can build from literals: every sequence of at most
\* MaxLen addresses, duplicates included, each with an empty name.
Lists == UNION {[1..n -> {IpNew(a) : a \in Addrs}] : n \in 0..MaxLen}

\* The lists of literals handed to the rayon resolve(), which takes the
\* literals themselves: the three addresses' texts and a malformed literal.
LiteralLists ==
    UNION {[1..n -> {to_string(a) : a \in Addrs} \cup {"foobar"}] :
               n \in 0..MaxLen}

(* ------------------------------ state ---------------------------------- *)

VARIABLES
    engine,     \* which implementation runs: "iplist", "bin" or "async"
    res,        \* the kind of the Solver handed to the call
    njobs,      \* the requested job count
    ipl,        \* the caller's list
    pc,         \* the calling thread's position
    route,      \* which solver the call was routed to
    ret,        \* what the call returned: "none", "ok" or an error
    result,     \* the returned list
    all,        \* the feeder's copy of the list
    fidx,       \* how many records the feeder has sent
    fpc,        \* the feeder thread or task: "none", "run", "exit", "panic"
    fparked,    \* the feeder's sender is parked (bounded channel full)
    ch_gen,     \* channel feeder -> fan_out
    fo_i,       \* iterations of fan_out's loop done
    jobs,       \* the pool's queue of jobs not yet started
    busy,       \* bag of records being resolved by pool threads or tasks
    tparked,    \* worker tasks that have sent and wait to be unparked
    ch_out,     \* channel workers -> fan_in
    fin,        \* the fan_in thread or task: "none", "run", "exit", "panic"
    finparked,  \* fan_in's sender is parked
    ch_fin,     \* channel fan_in -> caller
    full,       \* the list the caller collects into
    issued,     \* jobs handed to the pool
    calls,      \* capability invocations
    lost,       \* jobs that panicked without sending
    slots       \* the parallel iterator's output: index -> mapped record

vars == <<engine, res, njobs, ipl, pc, route, ret, result, all, fidx, fpc,
          fparked, ch_gen, fo_i, jobs, busy, tparked, ch_out, fin, finparked,
          ch_fin, full, issued, calls, lost, slots>>

cfgVars == <<engine, res, njobs, ipl>>
feedVars == <<all, fidx, fpc, fparked, ch_gen>>
poolVars == <<jobs, busy, tparked, issued, calls, lost>>
outVars == <<ch_out, fin, finparked, ch_fin>>

\* "iplist": IpList::simple_solve / IpList::parallel_solve (threads, Ip::solve).
\* "bin": RealSolver::solve and its two solvers (threads, lookup_addr).
\* "async": resolve() over a Solver, with the cooperative-task parallel_solve.
\* "rayon": resolve() over a Solver, with rayon's parallel iterator.
\* "legacy": simple_solve of the IpList of resolve.rs (Ip::solve, no sort).
\* "dumb": DumbSolver::solve, the Resolver that stands in for RealSolver.
Engines == {"iplist", "bin", "async", "rayon", "legacy", "dumb"}

\* enum ResType
ResTypes == {"Fake", "Null", "Real", "Sleep"}

\* State right after the caller has built its list and picked a job count
\* and, for resolve(), a Solver. IpList's solvers are called directly;
\* RealSolver::solve() and resolve() are entered through the dispatcher.
\* The rayon resolve() takes no job count.
Init ==
    /\ engine \in Engines
    /\ res \in ResTypes
    /\ engine \in {"iplist", "bin", "legacy", "dumb"} => res = "Real"
    /\ ipl \in IF engine = "rayon" THEN LiteralLists ELSE Lists
    /\ njobs \in 0..(MaxThreads + 1)
    /\ engine = "rayon" => njobs = 1
    /\ engine = "legacy" => pc = "simple"
    /\ pc \in {"start", "simple", "parallel"}
    /\ engine \in {"bin", "async", "rayon", "dumb"} => pc = "start"
    /\ engine = "iplist" => pc # "start"
    /\ pc = "simple" => njobs = 1
    /\ route = IF pc = "start" THEN "none" ELSE pc
    /\ ret = "none"
    /\ result = <<>>
    /\ all = <<>>
    /\ fidx = 0
    /\ fpc = "none"
    /\ fparked = FALSE
    /\ ch_gen = <<>>
    /\ fo_i = 0
    /\ jobs = <<>>
    /\ busy = EmptyBag
    /\ tparked = 0
    /\ ch_out = <<>>
    /\ fin = "none"
    /\ finparked = FALSE
    /\ ch_fin = <<>>
    /\ full = <<>>
    /\ issued = 0
    /\ calls = 0
    /\ lost = 0
    /\ slots = <<>>

(* --------------------------- capability -------------------------------- *)

\* Mutant of NullSolve: a name the record already carries is kept.
NullSolve_KeepsName(x) ==
    [ok |-> TRUE,
     ip |-> Ip(x.ip, IF x.name = "" THEN to_string(x.ip) ELSE x.name)]

\* NullResolver::solve(): the name is the address's text.
NullSolve(x) == [ok |-> TRUE, ip |-> Ip(x.ip, to_string(x.ip))]

\* FakeResolver::solve(): a fixed name.
FakeSolve(x) == [ok |-> TRUE, ip |-> Ip(x.ip, "some.host.invalid")]

\* Mutant of SleepSolve: the record returned is a fixed one.
SleepSolve_FixedRecord(x) == [ok |-> TRUE, ip |-> Ip(A1111, "some.host.invalid")]

\* SleepResolver::solve(): FakeResolver after a pause.
SleepSolve(x) == [ok |-> TRUE, ip |-> Ip(x.ip, "some.host.invalid")]

\* RealResolver::solve(): lookup_addr(&ip.ip).unwrap(). A failed lookup
\* panics (ok = FALSE); a successful one gives the looked-up text as name.
RealSolve(x) ==
    LET r == lookup_addr(x.ip)
    IN  [ok |-> r.ok, ip |-> Ip(x.ip, r.val)]

\* Solver::solve() on the resolver res_init(t) wraps.
SolverSolve(t, x) ==
    CASE t = "Null" -> NullSolve(x)
      [] t = "Fake" -> FakeSolve(x)
      [] t = "Sleep" -> SleepSolve(x)
      [] t = "Real" -> RealSolve(x)

\* RealSolver's workers: Ip { ip, name: self.lookup_addr(&n.ip).unwrap() }.
BinSolve(x) ==
    LET r == lookup_addr(x.ip)
    IN  [ok |-> r.ok, ip |-> Ip(x.ip, r.val)]

\* The rayon resolve()'s closure, res.solve(&Ip::new(ip)): Ip::new panics on
\* a malformed literal.
RayonSolve(lit) ==
    LET p == parse(lit)
    IN  IF p.ok
        THEN SolverSolve(res, IpNew(p.val))
        ELSE [ok |-> FALSE, ip |-> IpNew(p.val)]

\* DumbSolver::lookup_addr(): a fixed name for every address.
DumbLookup(x) == [ok |-> TRUE, ip |-> Ip(x.ip, "dumb.host.name")]

\* What one resolution yields in each engine: ok = FALSE is a panic.
Resolve(x) ==
    CASE engine \in {"iplist", "legacy"} -> [ok |-> TRUE, ip |-> IpSolve(x)]
      [] engine = "bin" -> BinSolve(x)
      [] engine = "async" -> SolverSolve(res, x)
      [] engine = "rayon" -> RayonSolve(x)
      [] engine = "dumb" -> DumbLookup(x)

(* --------------------------- dispatcher -------------------------------- *)

\* Mutant of Solve: the limit is taken one too high.
Solve_LateLimit ==
    /\ pc = "start"
    /\ engine = "bin"
    /\ IF njobs > MaxThreads + 1
       THEN /\ pc' = "err"
            /\ ret' = "Too many threads"
            /\ route' = route
       ELSE /\ pc' = IF njobs = 1 THEN "simple" ELSE "parallel"
            /\ route' = pc'
            /\ ret' = ret
    /\ UNCHANGED <<cfgVars, slots, result, feedVars, fo_i, poolVars, outVars, full>>

\* Mutant of Solve: the highest accepted job count is served sequentially.
Solve_LimitSequential ==
    /\ pc = "start"
    /\ engine = "bin"
    /\ IF njobs > MaxThreads
       THEN /\ pc' = "err"
            /\ ret' = "Too many threads"
            /\ route' = route
       ELSE /\ pc' = IF njobs = 1 \/ njobs = MaxThreads
                     THEN "simple" ELSE "parallel"
            /\ route' = pc'
            /\ ret' = ret
    /\ UNCHANGED <<cfgVars, slots, result, feedVars, fo_i, poolVars, outVars, full>>

\* Mutant of Solve: a job count of 0 is refused like one above the limit.
Solve_RejectsZero ==
    /\ pc = "start"
    /\ engine = "bin"
    /\ IF njobs > MaxThreads \/ njobs = 0
       THEN /\ pc' = "err"
            /\ ret' = "Too many threads"
            /\ route' = route
       ELSE /\ pc' = IF njobs = 1 THEN "simple" ELSE "parallel"
            /\ route' = pc'
            /\ ret' = ret
    /\ UNCHANGED <<cfgVars, slots, result, feedVars, fo_i, poolVars, outVars, full>>

\* RealSolver::solve(): the job-count check, then the choice of solver.
Solve ==
    /\ pc = "start"
    /\ engine = "bin"
    /\ IF njobs > MaxThreads
       THEN /\ pc' = "err"
            /\ ret' = "Too many threads"
            /\ route' = route
       ELSE /\ pc' = IF njobs = 1 THEN "simple" ELSE "parallel"
            /\ route' = pc'
            /\ ret' = ret
    /\ UNCHANGED <<cfgVars, slots, result, feedVars, fo_i, poolVars, outVars, full>>

\* Mutant of DumbSolve: the job count is checked as RealSolver::solve() does.
DumbSolve_ChecksJobs ==
    /\ pc = "start"
    /\ engine = "dumb"
    /\ IF njobs > MaxThreads
       THEN /\ pc' = "err"
            /\ ret' = "Too many threads"
            /\ result' = result
       ELSE /\ pc' = "done"
            /\ ret' = "ok"
            /\ result' = ipl
    /\ UNCHANGED <<cfgVars, slots, route, feedVars, fo_i, poolVars, outVars, full>>

\* DumbSolver::solve(): the list comes back unchanged, whatever the job
\* count.
DumbSolve ==
    /\ pc = "start"
    /\ engine = "dumb"
    /\ pc' = "done"
    /\ ret' = "ok"
    /\ result' = ipl
    /\ UNCHANGED <<cfgVars, slots, route, feedVars, fo_i, poolVars, outVars, full>>

\* Mutant of ResolveCall: the bypass hands the record back unresolved.
ResolveCall_BypassUnresolved ==
    /\ pc = "start"
    /\ engine = "async"
    /\ IF ipl = <<>>
       THEN /\ pc' = "err"
            /\ ret' = "Empty list"
            /\ UNCHANGED <<route, result, calls, lost>>
       ELSE IF njobs > MaxThreads
       THEN /\ pc' = "err"
            /\ ret' = "Too many threads"
            /\ UNCHANGED <<route, result, calls, lost>>
       ELSE IF Len(ipl) = 1
       THEN /\ route' = "bypass"
            /\ result' = <<ipl[1]>>
            /\ ret' = "ok"
            /\ pc' = "done"
            /\ UNCHANGED <<calls, lost>>
       ELSE /\ pc' = IF njobs = 1 THEN "simple" ELSE "parallel"
            /\ route' = pc'
            /\ UNCHANGED <<ret, result, calls, lost>>
    /\ UNCHANGED <<cfgVars, slots, feedVars, fo_i, jobs, busy, tparked, issued,
                   outVars, full>>

\* Mutant of ResolveCall: the one-element bypass comes before the job-count
\* check.
ResolveCall_BypassFirst ==
    /\ pc = "start"
    /\ engine = "async"
    /\ IF ipl = <<>>
       THEN /\ pc' = "err"
            /\ ret' = "Empty list"
            /\ UNCHANGED <<route, result, calls, lost>>
       ELSE IF Len(ipl) = 1
       THEN /\ route' = "bypass"
            /\ calls' = calls + 1
            /\ LET r == Resolve(ipl[1])
               IN  IF r.ok
                   THEN /\ result' = <<r.ip>>
                        /\ ret' = "ok"
                        /\ pc' = "done"
                        /\ lost' = lost
                   ELSE /\ pc' = "panic"
                        /\ lost' = lost + 1
                        /\ UNCHANGED <<result, ret>>
       ELSE IF njobs > MaxThreads
       THEN /\ pc' = "err"
            /\ ret' = "Too many threads"
            /\ UNCHANGED <<route, result, calls, lost>>
       ELSE /\ pc' = IF njobs = 1 THEN "simple" ELSE "parallel"
            /\ route' = pc'
            /\ UNCHANGED <<ret, result, calls, lost>>
    /\ UNCHANGED <<cfgVars, slots, feedVars, fo_i, jobs, busy, tparked, issued,
                   outVars, full>>

\* resolve(): the empty-list check, the job-count check, the one-element
\* bypass, then the choice of solver.
ResolveCall ==
    /\ pc = "start"
    /\ engine = "async"
    /\ IF ipl = <<>>
       THEN /\ pc' = "err"
            /\ ret' = "Empty list"
            /\ UNCHANGED <<route, result, calls, lost>>
       ELSE IF njobs > MaxThreads
       THEN /\ pc' = "err"
            /\ ret' = "Too many threads"
            /\ UNCHANGED <<route, result, calls, lost>>
       ELSE IF Len(ipl) = 1
       THEN /\ route' = "bypass"
            /\ calls' = calls + 1
            /\ LET r == Resolve(ipl[1])
               IN  IF r.ok
                   THEN /\ result' = <<r.ip>>
                        /\ ret' = "ok"
                        /\ pc' = "done"
                        /\ lost' = lost
                   ELSE /\ pc' = "panic"
                        /\ lost' = lost + 1
                        /\ UNCHANGED <<result, ret>>
       ELSE /\ pc' = IF njobs = 1 THEN "simple" ELSE "parallel"
            /\ route' = pc'
            /\ UNCHANGED <<ret, result, calls, lost>>
    /\ UNCHANGED <<cfgVars, slots, feedVars, fo_i, jobs, busy, tparked, issued,
                   outVars, full>>

(* ------------------------- sequential solver --------------------------- *)

\* simple_solve(): one iteration over the list, one capability call.
SimpleStep ==
    /\ pc = "simple"
    /\ Len(full) < Len(ipl)
    /\ LET r == Resolve(ipl[Len(full) + 1])
       IN  IF r.ok
           THEN /\ full' = Append(full, r.ip)
                /\ UNCHANGED <<pc, lost>>
           ELSE /\ pc' = "panic"
                /\ lost' = lost + 1
                /\ full' = full
    /\ calls' = calls + 1
    /\ UNCHANGED <<cfgVars, slots, route, ret, result, feedVars, fo_i, jobs, busy,
                   tparked, issued, outVars>>

\* Mutant of SimpleDone: the list is returned as collected, without the sort.
SimpleDone_NoSort ==
    /\ pc = "simple"
    /\ Len(full) = Len(ipl)
    /\ result' = full
    /\ ret' = "ok"
    /\ pc' = "done"
    /\ UNCHANGED <<cfgVars, slots, route, feedVars, fo_i, poolVars, outVars, full>>

\* What simple_solve() does to its list before returning it: the IpList of
\* resolve.rs returns it as collected, every other simple_solve sorts it.
SimpleFinish(l) == IF engine = "legacy" THEN l ELSE Sort(l)

\* simple_solve(): the sort and the return.
SimpleDone ==
    /\ pc = "simple"
    /\ Len(full) = Len(ipl)
    /\ result' = SimpleFinish(full)
    /\ ret' = "ok"
    /\ pc' = "done"
    /\ UNCHANGED <<cfgVars, slots, route, feedVars, fo_i, poolVars, outVars, full>>

(* -------------------------- parallel solver ---------------------------- *)

\* Mutant of ParallelStart: queue() takes the caller's records instead of
\* copying them.
ParallelStart_TakesList ==
    /\ pc = "parallel"
    /\ IF engine # "async" /\ njobs = 0
       THEN /\ pc' = "panic"
            /\ UNCHANGED <<all, fpc, ipl>>
       ELSE /\ pc' = "fan_out"
            /\ all' = ipl
            /\ ipl' = <<>>
            /\ fpc' = "run"
    /\ UNCHANGED <<engine, res, njobs, slots, route, ret, result, fidx,
                   fparked, ch_gen, fo_i, poolVars, outVars, full>>

\* parallel_solve() up to the call of fan_out. With threads:
\* ThreadPool::new(njobs), which panics for njobs = 0, then queue(), which
\* copies the list and spawns the feeder. With tasks there is no pool and
\* the job count is not used.
ParallelStart ==
    /\ pc = "parallel"
    /\ IF engine # "async" /\ njobs = 0
       THEN /\ pc' = "panic"
            /\ UNCHANGED <<all, fpc>>
       ELSE /\ pc' = "fan_out"
            /\ all' = ipl
            /\ fpc' = "run"
    /\ UNCHANGED <<cfgVars, slots, route, ret, result, fidx, fparked, ch_gen, fo_i,
                   poolVars, outVars, full>>

\* The receiving end of the first channel lives as long as fan_out runs
\* (it is moved into fan_out) or, for RealSolver, which lends it to fan_out,
\* as long as parallel_solve runs.
GenRxAlive ==
    \/ pc \in {"fan_out", "join"}
    \/ engine = "bin" /\ pc = "collect"

\* The feeder: one tx.send() of the loop in queue(). The threads' channel is
\* unbounded. The tasks' channel(0) holds the one message of its one sender
\* and parks the sender until that message has been received.
FeederSend ==
    /\ fpc = "run"
    /\ ~fparked
    /\ fidx < Len(all)
    /\ IF GenRxAlive
       THEN /\ ch_gen' = Append(ch_gen, all[fidx + 1])
            /\ fidx' = fidx + 1
            /\ fparked' = (engine = "async")
            /\ fpc' = fpc
       ELSE /\ fpc' = "panic"
            /\ UNCHANGED <<ch_gen, fidx, fparked>>
    /\ UNCHANGED <<cfgVars, slots, pc, route, ret, result, all, fo_i, poolVars,
                   outVars, full>>

\* The feeder ends and drops its sender.
FeederExit ==
    /\ fpc = "run"
    /\ ~fparked
    /\ fidx = Len(all)
    /\ fpc' = "exit"
    /\ UNCHANGED <<cfgVars, slots, pc, route, ret, result, all, fidx, fparked,
                   ch_gen, fo_i, poolVars, outVars, full>>

\* fan_out() with threads: one of its s iterations, rx_gen.recv().unwrap()
\* then pool.execute(). recv() blocks while the channel is empty and the
\* feeder holds its sender; it fails, and unwrap() panics, once the channel
\* is empty and closed.
FanOutRecv ==
    /\ pc = "fan_out"
    /\ engine # "async"
    /\ fo_i < Len(ipl)
    /\ ch_gen # <<>> \/ fpc \in {"exit", "panic"}
    /\ IF ch_gen # <<>>
       THEN /\ jobs' = Append(jobs, Head(ch_gen))
            /\ ch_gen' = Tail(ch_gen)
            /\ issued' = issued + 1
            /\ fo_i' = fo_i + 1
            /\ pc' = pc
       ELSE /\ pc' = "panic"
            /\ UNCHANGED <<jobs, ch_gen, issued, fo_i>>
    /\ UNCHANGED <<cfgVars, slots, route, ret, result, all, fidx, fpc, fparked, busy,
                   tparked, calls, lost, outVars, full>>

\* Mutant of FanOutDone: fan_out issues one job per worker, not one per
\* record, and returns once njobs jobs are queued.
FanOutDone_PerWorker ==
    /\ pc = "fan_out"
    /\ engine # "async"
    /\ fo_i = (IF njobs < Len(ipl) THEN njobs ELSE Len(ipl))
    /\ fin' = "run"
    /\ pc' = "collect"
    /\ UNCHANGED <<cfgVars, slots, route, ret, result, feedVars, fo_i, poolVars,
                   ch_out, finparked, ch_fin, full>>

\* Mutant of FanOutDone: fan_out returns after one iteration per pool
\* thread, so it waits for records an empty list never sends.
FanOutDone_PoolSize ==
    /\ pc = "fan_out"
    /\ engine # "async"
    /\ fo_i = njobs
    /\ fin' = "run"
    /\ pc' = "collect"
    /\ UNCHANGED <<cfgVars, slots, route, ret, result, feedVars, fo_i, poolVars,
                   ch_out, finparked, ch_fin, full>>

\* fan_out() with threads returns after s iterations, dropping its own
\* sender, and fan_in() spawns the forwarding thread.
FanOutDone ==
    /\ pc = "fan_out"
    /\ engine # "async"
    /\ fo_i = Len(ipl)
    /\ fin' = "run"
    /\ pc' = "collect"
    /\ UNCHANGED <<cfgVars, slots, route, ret, result, feedVars, fo_i, poolVars,
                   ch_out, finparked, ch_fin, full>>

\* fan_out() with tasks: one turn of the loop on rx_gen.next(). A record
\* spawns a task (and unparks the feeder); the end of the stream leaves the
\* loop for the wait on the tasks' handles.
TaskFanOutRecv ==
    /\ pc = "fan_out"
    /\ engine = "async"
    /\ ch_gen # <<>> \/ fpc \in {"exit", "panic"}
    /\ IF ch_gen # <<>>
       THEN /\ busy' = busy (+) SetToBag({Head(ch_gen)})
            /\ ch_gen' = Tail(ch_gen)
            /\ fparked' = FALSE
            /\ issued' = issued + 1
            /\ fo_i' = fo_i + 1
            /\ pc' = pc
       ELSE /\ pc' = "join"
            /\ UNCHANGED <<busy, ch_gen, fparked, issued, fo_i>>
    /\ UNCHANGED <<cfgVars, slots, route, ret, result, all, fidx, fpc, jobs, tparked,
                   calls, lost, outVars, full>>

\* fan_out() with tasks: every handle has been awaited. Awaiting the handle
\* of a task that panicked does not return. Then fan_out returns, dropping
\* its own sender, and fan_in() spawns the forwarding task.
TaskJoin ==
    /\ pc = "join"
    /\ lost > 0 \/ (busy = EmptyBag /\ tparked = 0)
    /\ IF lost > 0
       THEN /\ pc' = "panic"
            /\ fin' = fin
       ELSE /\ pc' = "collect"
            /\ fin' = "run"
    /\ UNCHANGED <<cfgVars, slots, route, ret, result, feedVars, fo_i, poolVars,
                   ch_out, finparked, ch_fin, full>>

\* Mutant of WorkerTake: a job starts as soon as it is queued, whatever the
\* number of jobs already running.
WorkerTake_NoCap ==
    /\ jobs # <<>>
    /\ busy' = busy (+) SetToBag({Head(jobs)})
    /\ jobs' = Tail(jobs)
    /\ UNCHANGED <<cfgVars, slots, pc, route, ret, result, feedVars, fo_i,
                   tparked, issued, calls, lost, outVars, full>>

\* A pool thread takes the next job; the pool has njobs threads.
WorkerTake ==
    /\ jobs # <<>>
    /\ BagCardinality(busy) < njobs
    /\ busy' = busy (+) SetToBag({Head(jobs)})
    /\ jobs' = Tail(jobs)
    /\ UNCHANGED <<cfgVars, slots, pc, route, ret, result, feedVars, fo_i, tparked,
                   issued, calls, lost, outVars, full>>

\* Mutant of OutRxAlive: the receiving end is dropped when fan_out returns.
OutRxAlive_FanOutOnly == pc \in {"fan_out", "join"}

\* The receiving end of the second channel: held by fan_out, then by
\* fan_in's thread or task until it ends.
OutRxAlive == pc \in {"fan_out", "join"} \/ fin = "run"

\* Mutant of OutBuffer: the second channel holds one result less than the
\* list has records.
OutBuffer_OneShort == Len(ipl) - 1

\* Buffer of the second channel: unbounded with threads (no sender ever
\* parks), channel(njobs) with njobs = s, the list's length, with tasks.
OutBuffer == Len(ipl)

\* A pool thread or a worker task runs its job: the resolution, then
\* tx.send(). A panic (a failed unwrap, a send to a dropped receiver) ends
\* the job with no result. A task whose message overfills the bounded
\* channel is parked until a message has been received.
WorkerRun(n) ==
    /\ BagIn(n, busy)
    /\ busy' = busy (-) SetToBag({n})
    /\ calls' = calls + 1
    /\ LET r == Resolve(n)
       IN  IF r.ok /\ OutRxAlive
           THEN /\ ch_out' = Append(ch_out, r.ip)
                /\ tparked' = IF engine = "async" /\ Len(ch_out') > OutBuffer
                              THEN tparked + 1 ELSE tparked
                /\ lost' = lost
           ELSE /\ lost' = lost + 1
                /\ UNCHANGED <<ch_out, tparked>>
    /\ UNCHANGED <<cfgVars, slots, pc, route, ret, result, feedVars, fo_i, jobs,
                   issued, fin, finparked, ch_fin, full>>

\* Mutant of OutTxCount: fan_out's own sender is never dropped.
OutTxCount_KeepsOwn ==
    1 + Len(jobs) + BagCardinality(busy) + tparked

\* Senders of the second channel still alive: fan_out's own, and one clone
\* in every job or task that has not finished.
OutTxCount ==
    (IF pc \in {"fan_out", "join"} THEN 1 ELSE 0)
        + Len(jobs) + BagCardinality(busy) + tparked

\* fan_in's thread or task forwards one record. With tasks the send into
\* channel(0) parks fan_in until the caller has received the record.
FanInFwd ==
    /\ fin = "run"
    /\ ~finparked
    /\ ch_out # <<>>
    /\ IF pc = "collect"
       THEN /\ ch_fin' = Append(ch_fin, Head(ch_out))
            /\ ch_out' = Tail(ch_out)
            /\ tparked' = IF tparked > 0 THEN tparked - 1 ELSE tparked
            /\ finparked' = (engine = "async")
            /\ fin' = fin
       ELSE /\ fin' = "panic"
            /\ UNCHANGED <<ch_out, ch_fin, tparked, finparked>>
    /\ UNCHANGED <<cfgVars, slots, pc, route, ret, result, feedVars, fo_i, jobs,
                   busy, issued, calls, lost, full>>

\* fan_in's thread or task ends when the second channel is empty and closed.
FanInExit ==
    /\ fin = "run"
    /\ ~finparked
    /\ ch_out = <<>>
    /\ OutTxCount = 0
    /\ fin' = "exit"
    /\ UNCHANGED <<cfgVars, slots, pc, route, ret, result, feedVars, fo_i, poolVars,
                   ch_out, finparked, ch_fin, full>>

\* parallel_solve(): one iteration of the collecting loop.
Collect ==
    /\ pc = "collect"
    /\ ch_fin # <<>>
    /\ full' = Append(full, Head(ch_fin))
    /\ ch_fin' = Tail(ch_fin)
    /\ finparked' = FALSE
    /\ UNCHANGED <<cfgVars, slots, pc, route, ret, result, feedVars, fo_i, poolVars,
                   ch_out, fin>>

\* Mutant of Finish: no engine sorts.
Finish_Unsorted(l) == l

\* What parallel_solve() does to the collected list before returning it:
\* IpList and RealSolver sort it; the task version's sort is commented out.
Finish(l) == IF engine = "async" THEN l ELSE Sort(l)

\* Mutant of CollectDone: the caller stops at the first moment the third
\* channel is empty, closed or not.
CollectDone_Early ==
    /\ pc = "collect"
    /\ ch_fin = <<>>
    /\ result' = Finish(full)
    /\ ret' = "ok"
    /\ pc' = "done"
    /\ UNCHANGED <<cfgVars, slots, route, feedVars, fo_i, poolVars, outVars, full>>

\* parallel_solve(): the third channel is empty and closed; return.
CollectDone ==
    /\ pc = "collect"
    /\ ch_fin = <<>>
    /\ fin \in {"exit", "panic"}
    /\ result' = Finish(full)
    /\ ret' = "ok"
    /\ pc' = "done"
    /\ UNCHANGED <<cfgVars, slots, route, feedVars, fo_i, poolVars, outVars, full>>

\* The records the parallel iterator has still to map.
Unmapped == (1..Len(ipl)) \ DOMAIN slots

\* Mutant of RayonResolve: an empty list is a success, not an error.
RayonResolve_EmptyOk ==
    /\ pc = "start"
    /\ engine = "rayon"
    /\ IF ipl = <<>>
       THEN /\ pc' = "done"
            /\ ret' = "ok"
            /\ UNCHANGED <<route, result, calls, lost>>
       ELSE IF Len(ipl) = 1
       THEN /\ route' = "bypass"
            /\ calls' = calls + 1
            /\ LET r == Resolve(ipl[1])
               IN  IF r.ok
                   THEN /\ result' = <<r.ip>>
                        /\ ret' = "ok"
                        /\ pc' = "done"
                        /\ lost' = lost
                   ELSE /\ pc' = "panic"
                        /\ lost' = lost + 1
                        /\ UNCHANGED <<result, ret>>
       ELSE /\ pc' = "map"
            /\ route' = "rayon"
            /\ UNCHANGED <<ret, result, calls, lost>>
    /\ UNCHANGED <<cfgVars, slots, feedVars, fo_i, jobs, busy, tparked,
                   issued, outVars, full>>

\* The rayon resolve(): the empty-list check, the one-element bypass, then
\* the parallel iterator over the list.
RayonResolve ==
    /\ pc = "start"
    /\ engine = "rayon"
    /\ IF ipl = <<>>
       THEN /\ pc' = "err"
            /\ ret' = "Empty list"
            /\ UNCHANGED <<route, result, calls, lost>>
       ELSE IF Len(ipl) = 1
       THEN /\ route' = "bypass"
            /\ calls' = calls + 1
            /\ LET r == Resolve(ipl[1])
               IN  IF r.ok
                   THEN /\ result' = <<r.ip>>
                        /\ ret' = "ok"
                        /\ pc' = "done"
                        /\ lost' = lost
                   ELSE /\ pc' = "panic"
                        /\ lost' = lost + 1
                        /\ UNCHANGED <<result, ret>>
       ELSE /\ pc' = "map"
            /\ route' = "rayon"
            /\ UNCHANGED <<ret, result, calls, lost>>
    /\ UNCHANGED <<cfgVars, slots, feedVars, fo_i, jobs, busy, tparked,
                   issued, outVars, full>>

\* par_iter().map(): rayon's threads map the records in whatever order the
\* work is split and stolen; the mapped record goes to the record's own
\* position. A panic in the closure is propagated to the caller.
RayonMap(i) ==
    /\ pc = "map"
    /\ i \in Unmapped
    /\ calls' = calls + 1
    /\ LET r == Resolve(ipl[i])
       IN  IF r.ok
           THEN /\ slots' = (i :> r.ip) @@ slots
                /\ UNCHANGED <<pc, lost>>
           ELSE /\ pc' = "panic"
                /\ lost' = lost + 1
                /\ slots' = slots
    /\ UNCHANGED <<cfgVars, route, ret, result, feedVars, fo_i, jobs, busy,
                   tparked, issued, outVars, full>>

\* Mutant of RayonCollect: the collected list is returned without the sort.
RayonCollect_NoSort ==
    /\ pc = "map"
    /\ Unmapped = {}
    /\ result' = [i \in 1..Len(ipl) |-> slots[i]]
    /\ ret' = "ok"
    /\ pc' = "done"
    /\ UNCHANGED <<cfgVars, slots, route, feedVars, fo_i, poolVars, outVars,
                   full>>

\* collect(), r.sort(), assert_eq!(ipl.len(), r.len()), Ok(r).
RayonCollect ==
    /\ pc = "map"
    /\ Unmapped = {}
    /\ LET r == Sort([i \in 1..Len(ipl) |-> slots[i]])
       IN  IF Len(r) = Len(ipl)
           THEN /\ result' = r
                /\ ret' = "ok"
                /\ pc' = "done"
           ELSE /\ pc' = "panic"
                /\ UNCHANGED <<result, ret>>
    /\ UNCHANGED <<cfgVars, slots, route, feedVars, fo_i, poolVars, outVars,
                   full>>

Next ==
    \/ Solve
    \/ DumbSolve
    \/ ResolveCall
    \/ SimpleStep
    \/ SimpleDone
    \/ ParallelStart
    \/ FeederSend
    \/ FeederExit
    \/ FanOutRecv
    \/ FanOutDone
    \/ TaskFanOutRecv
    \/ TaskJoin
    \/ WorkerTake
    \/ \E n \in BagToSet(busy) : WorkerRun(n)
    \/ FanInFwd
    \/ FanInExit
    \/ Collect
    \/ CollectDone
    \/ RayonResolve
    \/ \E i \in Unmapped : RayonMap(i)
    \/ RayonCollect

Spec == Init /\ [][Next]_vars

\* The steps of each thread (or task): the caller, the feeder, the workers
\* and fan_in. The scheduler runs every thread that stays runnable.
Main ==
    \/ Solve
    \/ DumbSolve
    \/ ResolveCall
    \/ SimpleStep
    \/ SimpleDone
    \/ ParallelStart
    \/ FanOutRecv
    \/ FanOutDone
    \/ TaskFanOutRecv
    \/ TaskJoin
    \/ Collect
    \/ CollectDone
    \/ RayonResolve
    \/ RayonCollect

Feeder == FeederSend \/ FeederExit

Workers ==
    \/ WorkerTake
    \/ \E n \in BagToSet(busy) : WorkerRun(n)
    \/ \E i \in Unmapped : RayonMap(i)

FanIn == FanInFwd \/ FanInExit

FairSpec ==
    /\ Init
    /\ [][Next]_vars
    /\ WF_vars(Main)
    /\ WF_vars(Feeder)
    /\ WF_vars(Workers)
    /\ WF_vars(FanIn)

(* ---------------------- one capability call alone ---------------------- *)

\* The names a record can carry when it is handed to a capability.
Names ==
    {"", "1.1.1.1", "192.0.2.1", "2001:db8::1", "dumb.host.name",
     "failed to lookup address information", "foo.bar.invalid",
     "one.one.one.one", "some.host.invalid"}

\* One record, with any name, about to be handed to the capability of one of
\* the engines (Ip::solve, RealSolver's lookup, or a Solver of any kind, the
\* same for both resolve() functions).
CapInit ==
    /\ engine \in Engines \ {"rayon", "dumb"}
    /\ res \in ResTypes
    /\ engine \in {"iplist", "bin", "legacy"} => res = "Real"
    /\ ipl \in {<<Ip(a, n)>> : a \in Addrs, n \in Names}
    /\ njobs = 1
    /\ pc = "cap"
    /\ route = "none"
    /\ ret = "none"
    /\ result = <<>>
    /\ all = <<>>
    /\ fidx = 0
    /\ fpc = "none"
    /\ fparked = FALSE
    /\ ch_gen = <<>>
    /\ fo_i = 0
    /\ jobs = <<>>
    /\ busy = EmptyBag
    /\ tparked = 0
    /\ ch_out = <<>>
    /\ fin = "none"
    /\ finparked = FALSE
    /\ ch_fin = <<>>
    /\ full = <<>>
    /\ issued = 0
    /\ calls = 0
    /\ lost = 0
    /\ slots = <<>>

\* solve() on the record: it returns a record or it panics.
CapSolve ==
    /\ pc = "cap"
    /\ calls' = calls + 1
    /\ LET r == Resolve(ipl[1])
       IN  IF r.ok
           THEN /\ result' = <<r.ip>>
                /\ ret' = "ok"
                /\ pc' = "done"
                /\ lost' = lost
           ELSE /\ pc' = "panic"
                /\ lost' = lost + 1
                /\ UNCHANGED <<result, ret>>
    /\ UNCHANGED <<cfgVars, slots, route, feedVars, fo_i, jobs, busy, tparked, issued,
                   outVars, full>>

CapNext == CapSolve

CapSpec == CapInit /\ [][CapNext]_vars

(* ---------------------- building and sorting a list ------------------- *)

\* The names given with an address in an (address, name) pair.
PairNames == {"one.one.one.one", "some.host.invalid"}

\* No pipeline exists: no thread, no job, no message.
PipelineIdle ==
    /\ fidx = 0
    /\ fpc = "none"
    /\ fparked = FALSE
    /\ ch_gen = <<>>
    /\ fo_i = 0
    /\ jobs = <<>>
    /\ busy = EmptyBag
    /\ tparked = 0
    /\ ch_out = <<>>
    /\ fin = "none"
    /\ finparked = FALSE
    /\ ch_fin = <<>>
    /\ full = <<>>
    /\ issued = 0
    /\ calls = 0
    /\ lost = 0
    /\ slots = <<>>

\* IpList::new(): the empty list. Here `all` records the literals and names
\* the caller has handed over so far.
ListInit ==
    /\ engine = "iplist"
    /\ res = "Real"
    /\ njobs = 1
    /\ ipl = <<>>
    /\ all = <<>>
    /\ pc = "build"
    /\ route = "none"
    /\ ret = "none"
    /\ result = <<>>
    /\ PipelineIdle

\* Mutant of ListPush: a record already in the list is not added again.
ListPush_Dedup(lit) ==
    /\ pc = "build"
    /\ Len(ipl) < MaxLen
    /\ all' = Append(all, [lit |-> lit, name |-> ""])
    /\ LET r == parse(lit)
       IN  IF r.ok
           THEN /\ ipl' = IF \E i \in 1..Len(ipl) : ipl[i] = IpNew(r.val)
                           THEN ipl ELSE Append(ipl, IpNew(r.val))
                /\ pc' = pc
           ELSE /\ pc' = "panic"
                /\ ipl' = ipl
    /\ UNCHANGED <<engine, res, njobs, slots, route, ret, result, fidx, fpc,
                   fparked, ch_gen, fo_i, poolVars, outVars, full>>

\* ipl.push(Ip::new(lit)), the step of FromIterator<&str>: the literal is
\* parsed, and unwrap() panics on a malformed one.
ListPush(lit) ==
    /\ pc = "build"
    /\ Len(ipl) < MaxLen
    /\ all' = Append(all, [lit |-> lit, name |-> ""])
    /\ LET r == parse(lit)
       IN  IF r.ok
           THEN /\ ipl' = Append(ipl, IpNew(r.val))
                /\ pc' = pc
           ELSE /\ pc' = "panic"
                /\ ipl' = ipl
    /\ UNCHANGED <<engine, res, njobs, slots, route, ret, result, fidx, fpc,
                   fparked, ch_gen, fo_i, poolVars, outVars, full>>

\* ipl.push(Ip::from((lit, name))), the step of FromIterator<(&str, &str)>.
ListPushPair(lit, name) ==
    /\ pc = "build"
    /\ Len(ipl) < MaxLen
    /\ all' = Append(all, [lit |-> lit, name |-> name])
    /\ LET r == parse(lit)
       IN  IF r.ok
           THEN /\ ipl' = Append(ipl, Ip(r.val, name))
                /\ pc' = pc
           ELSE /\ pc' = "panic"
                /\ ipl' = ipl
    /\ UNCHANGED <<engine, res, njobs, slots, route, ret, result, fidx, fpc,
                   fparked, ch_gen, fo_i, poolVars, outVars, full>>

\* Vec::len() and Vec::is_empty() of the list.
len(l) == Len(l)
is_empty(l) == l = <<>>

\* full.0.sort() on the list built.
ListSort ==
    /\ pc = "build"
    /\ result' = Sort(ipl)
    /\ pc' = "done"
    /\ UNCHANGED <<cfgVars, slots, route, ret, feedVars, fo_i, poolVars,
                   outVars, full>>

ListNext ==
    \/ \E lit \in Literals : ListPush(lit)
    \/ \E lit \in Literals, name \in PairNames : ListPushPair(lit, name)
    \/ ListSort

ListSpec == ListInit /\ [][ListNext]_vars

(* ------------------------- files to process ---------------------------- *)

\* The paths of the tests of check_for_files.
Paths == {"foo", "bar", "-", "Cargo.toml"}

\* The paths that name a file on disk when the tests run.
OnDisk == {"Cargo.toml"}

\* Path::exists()
exists(f) == f \in OnDisk

\* The lists of paths a caller hands over.
PathLists == UNION {[1..n -> Paths] : n \in 0..MaxLen}

\* Entry of check_for_files(lfn). Here `ipl` is lfn, the borrowed list, `all`
\* is the list as the caller built it, and `full` is the local res.
FileInit ==
    /\ engine = "files"
    /\ res = "Real"
    /\ njobs = 1
    /\ ipl \in PathLists
    /\ all = ipl
    /\ pc = "check"
    /\ route = "none"
    /\ ret = "none"
    /\ result = <<>>
    /\ PipelineIdle

\* Mutant of CheckStep: "-" is kept only when a file of that name exists.
CheckStep_NoStdin ==
    /\ pc = "check"
    /\ fidx < Len(ipl)
    /\ LET f == ipl[fidx + 1]
       IN  full' = IF exists(f) THEN Append(full, f) ELSE full
    /\ fidx' = fidx + 1
    /\ UNCHANGED <<cfgVars, slots, pc, route, ret, result, all, fpc, fparked,
                   ch_gen, fo_i, poolVars, outVars>>

\* check_for_files(): one iteration of the loop over lfn.
CheckStep ==
    /\ pc = "check"
    /\ fidx < Len(ipl)
    /\ LET f == ipl[fidx + 1]
       IN  full' = IF exists(f) \/ f = "-" THEN Append(full, f) ELSE full
    /\ fidx' = fidx + 1
    /\ UNCHANGED <<cfgVars, slots, pc, route, ret, result, all, fpc, fparked,
                   ch_gen, fo_i, poolVars, outVars>>

\* check_for_files(): the loop is over, res is returned.
CheckDone ==
    /\ pc = "check"
    /\ fidx = Len(ipl)
    /\ result' = full
    /\ pc' = "done"
    /\ UNCHANGED <<cfgVars, slots, route, ret, feedVars, fo_i, poolVars,
                   outVars, full>>

FileNext ==
    \/ CheckStep
    \/ CheckDone

FileSpec == FileInit /\ [][FileNext]_vars

(* --------------------------- input types ------------------------------- *)

\* A file name is the sequence of the pieces its dots separate:
\* "foo.tar.GZ" is <<"foo", "tar", "GZ">>, ".CSV" is <<"", "CSV">>, "foo."
\* is <<"foo", "">>. The pieces are those of the names of the tests.
Pieces ==
    {"", "foo", "bar", "csv", "CSV", "zip", "ZIP", "txt", "XML", "gz", "Gz",
     "GZ", "tar", "TAR", "tGZ"}

FileNames == UNION {[1..n -> Pieces] : n \in 1..MaxParts}

\* enum Input
Inputs == {"Csv", "Gzip", "Xml", "Zip", "TarGzip", "Unknown"}

\* Mutant of to_ascii_lowercase: letters keep their case.
to_ascii_lowercase_KeepsCase(s) == s

\* str::to_ascii_lowercase() on a piece.
to_ascii_lowercase(s) ==
    CASE s = "CSV" -> "csv"
      [] s = "ZIP" -> "zip"
      [] s = "XML" -> "xml"
      [] s \in {"Gz", "GZ"} -> "gz"
      [] s = "TAR" -> "tar"
      [] s = "tGZ" -> "tgz"
      [] OTHER -> s

\* Path::extension(): none when the name has no dot, when its only dot is
\* its first character, or when it is ".."; else what follows the last dot.
extension(p) ==
    IF \/ Len(p) = 1
       \/ Len(p) = 2 /\ p[1] = ""
       \/ p = <<"", "", "">>
    THEN [some |-> FALSE, val |-> ""]
    ELSE [some |-> TRUE, val |-> p[Len(p)]]

\* str::ends_with() on the lowercased name, for a suffix given by its
\* pieces: ".tar.gz" is <<"tar", "gz">>, ".tgz" is <<"tgz">>.
ends_with(p, suffix) ==
    /\ Len(p) > Len(suffix)
    /\ \A i \in 1..Len(suffix) :
          to_ascii_lowercase(p[Len(p) - Len(suffix) + i]) = suffix[i]

\* Input::from()
InputFrom(p) ==
    LET e == extension(p)
        ext == to_ascii_lowercase(IF e.some THEN e.val ELSE "txt")
    IN  IF ext = "gz" /\ (ends_with(p, <<"tar", "gz">>) \/ ends_with(p, <<"tgz">>))
        THEN "TarGzip"
        ELSE CASE ext = "csv" -> "Csv"
               [] ext = "zip" -> "Zip"
               [] ext = "txt" -> "Xml"
               [] ext = "xml" -> "Xml"
               [] ext = "tgz" -> "TarGzip"
               [] ext = "gz" -> "Gzip"
               [] OTHER -> "Unknown"

\* Input::valid()
valid(self) == self # "Unknown"

\* A caller holds a file name. Here `all` is the name, `ret` the Input made
\* from it and `result` holds the answer of valid().
TypeInit ==
    /\ engine = "filetype"
    /\ res = "Real"
    /\ njobs = 1
    /\ ipl = <<>>
    /\ all \in FileNames
    /\ pc = "name"
    /\ route = "none"
    /\ ret = "none"
    /\ result = <<>>
    /\ PipelineIdle

\* Input::from(name)
TypeFrom ==
    /\ pc = "name"
    /\ ret' = InputFrom(all)
    /\ pc' = "typed"
    /\ UNCHANGED <<cfgVars, slots, route, result, feedVars, fo_i, poolVars,
                   outVars, full>>

\* valid() on the Input obtained.
TypeValid ==
    /\ pc = "typed"
    /\ result' = <<valid(ret)>>
    /\ pc' = "done"
    /\ UNCHANGED <<cfgVars, slots, route, ret, feedVars, fo_i, poolVars,
                   outVars, full>>

TypeNext ==
    \/ TypeFrom
    \/ TypeValid

TypeSpec == TypeInit /\ [][TypeNext]_vars

(* ------------------------------ claims --------------------------------- *)

\* The call is over: it returned a list, returned an error, or panicked.
Terminal == {"done", "err", "panic"}

\* The capability returns for every record of the list.
CapReturns == \A i \in 1..Len(ipl) : Resolve(ipl[i]).ok

\* The list resolved record by record, in input order.
Resolved(l) == [i \in 1..Len(l) |-> Resolve(l[i]).ip]

\* Occurrences of address a in list l.
Count(a, l) == Cardinality({i \in 1..Len(l) : l[i].ip = a})

\* The list is in non-decreasing canonical order.
IsSorted(l) == \A i, j \in 1..Len(l) : i < j => ~IpLess(l[j], l[i])

\* C1: length preservation. For a non-empty list, a job count in
\* 1..max_threads and a capability that returns for every record, no
\* interleaving of caller, feeder, workers and fan_in gets stuck before the
\* call is over, and the call ends by returning a list of exactly len(L)
\* records.
C1_LengthPreserved ==
    (ipl # <<>> /\ njobs \in 1..MaxThreads /\ CapReturns) =>
        /\ pc \in Terminal =>
               (pc = "done" /\ ret = "ok" /\ Len(result) = Len(ipl))
        /\ pc \notin Terminal => ENABLED Next

C1_Witness ==
    /\ engine = "bin"
    /\ route = "parallel"
    /\ pc = "done"
    /\ CapReturns
    /\ Len(ipl) = MaxLen
    /\ Len(result) = MaxLen

\* C2: exactly-once resolution. In IpList's and the task version's
\* parallel_solve never more than one job is issued, and never more than one
\* capability call made, per input record; when the call returns exactly one
\* was issued and made per record, and every address occurs in the returned
\* list as often as in the input.
C2_ExactlyOnce ==
    (engine \in {"iplist", "async"} /\ route = "parallel") =>
        /\ issued <= Len(ipl)
        /\ calls <= issued
        /\ pc = "done" =>
               /\ issued = Len(ipl)
               /\ calls = Len(ipl)
               /\ Len(result) = Len(ipl)
               /\ \A a \in Addrs : Count(a, result) = Count(a, ipl)

C2_Witness ==
    /\ engine = "iplist"
    /\ route = "parallel"
    /\ pc = "done"
    /\ njobs \in 1..(Len(ipl) - 1)
    /\ \E i, j \in 1..Len(ipl) : i < j /\ ipl[i] = ipl[j]
    /\ issued = Len(ipl)

\* C3: oversubscription rejection. With a non-empty list and a job count
\* above max_threads, solve() and resolve() do nothing but return the error:
\* no capability call, no job, no feeder, no fan_in, no message in a channel.
C3_Oversubscription ==
    (engine \in {"bin", "async"} /\ ipl # <<>> /\ njobs > MaxThreads) =>
        /\ pc \in {"start", "err"}
        /\ pc = "err" => ret = "Too many threads"
        /\ calls = 0
        /\ issued = 0
        /\ fpc = "none"
        /\ fin = "none"
        /\ all = <<>>
        /\ jobs = <<>>
        /\ busy = EmptyBag
        /\ ch_gen = <<>> /\ ch_out = <<>> /\ ch_fin = <<>>
        /\ result = <<>>

C3_Witness ==
    /\ engine = "bin"
    /\ ipl # <<>>
    /\ njobs > MaxThreads
    /\ pc = "err"
    /\ ret = "Too many threads"

\* C4: termination. Under fair scheduling of every thread, a parallel_solve
\* entered with more than one job and a capability that returns for every
\* record eventually returns, and returns with every record resolved.
C4_Terminates ==
    (pc = "parallel" /\ njobs > 1 /\ CapReturns)
        ~> (pc = "done" /\ ret = "ok" /\ calls = Len(ipl)
            /\ Len(result) = Len(ipl))

C4_Witness ==
    /\ engine = "iplist"
    /\ route = "parallel"
    /\ njobs > 1
    /\ Len(ipl) = MaxLen
    /\ pc = "done"
    /\ calls = MaxLen

\* C5: determinism. Whatever the job count and the interleaving, a call of
\* the thread-based engines that returns gives the list that depends on the
\* input alone: the records resolved one by one, in canonical order.
C5_Deterministic ==
    (engine \in {"iplist", "bin"} /\ pc = "done" /\ CapReturns) =>
        result = Sort(Resolved(ipl))

C5_Witness ==
    /\ engine = "bin"
    /\ route = "parallel"
    /\ pc = "done"
    /\ CapReturns
    /\ full # result
    /\ full # Resolved(ipl)

C7_AsyncSameList ==
    (engine = "async" /\ route = "parallel" /\ pc = "done") =>
        result = Sort(Resolved(ipl))

\* C8: a failed lookup drops no entry. A thread-based parallel_solve over N
\* records with a pool of at least one thread ends by returning N records,
\* each with a name, whether or not lookups failed.
C8_NoEntryDropped ==
    (engine \in {"iplist", "bin"} /\ route = "parallel" /\ njobs >= 1
        /\ pc \in Terminal) =>
        /\ pc = "done"
        /\ Len(result) = Len(ipl)
        /\ \A i \in 1..Len(result) : result[i].name # ""

\* C9: the Solver of kind Real never raises: solve() returns a record with
\* the input's address and, when the lookup failed, the error's text as name.
C9_RealNeverRaises ==
    (engine = "async" /\ res = "Real" /\ pc # "cap") =>
        /\ pc = "done"
        /\ result[1].ip = ipl[1].ip
        /\ ~lookup_addr(ipl[1].ip).ok =>
               result[1].name = lookup_addr(ipl[1].ip).val

\* C10: the Solver of kind Real substitutes the no-PTR sentinel: when the
\* lookup succeeds with the address's own text, the returned name is
\* "some.host.invalid" and not that text.
C10_RealSentinel ==
    (/\ engine = "async"
     /\ res = "Real"
     /\ pc = "done"
     /\ lookup_addr(ipl[1].ip).ok
     /\ lookup_addr(ipl[1].ip).val = to_string(ipl[1].ip)) =>
        /\ result[1].name = "some.host.invalid"
        /\ result[1].name # to_string(ipl[1].ip)

\* C11: Ip::solve never fails and maps the three lookup outcomes to a name:
\* a looked-up name other than the address's text is returned as it is, the
\* address's own text is replaced by "some.host.invalid", and a failed lookup
\* gives the error's text; the returned record keeps the input's address.
C11_IpSolveOutcomes ==
    (engine = "iplist" /\ pc # "cap") =>
        /\ pc = "done"
        /\ result[1].ip = ipl[1].ip
        /\ LET r == lookup_addr(ipl[1].ip)
           IN  /\ (r.ok /\ r.val # to_string(ipl[1].ip)) =>
                      result[1].name = r.val
               /\ (r.ok /\ r.val = to_string(ipl[1].ip)) =>
                      result[1].name = "some.host.invalid"
               /\ ~r.ok => result[1].name = ErrText

C11_Witness ==
    /\ engine = "iplist"
    /\ pc = "done"
    /\ ipl[1] = Ip(A192, "foo.bar.invalid")
    /\ result = <<Ip(A192, "some.host.invalid")>>

\* C12: dispatcher routing. Once solve() or resolve() has accepted a job
\* count in 1..max_threads, the call is served by simple_solve when
\* njobs = 1 and by parallel_solve when njobs > 1, max_threads included.
C12_Routing ==
    (engine \in {"bin", "async"} /\ njobs \in 1..MaxThreads
        /\ pc \notin {"start", "err"}) =>
        route = IF njobs = 1 THEN "simple" ELSE "parallel"

\* C12, amended: the routing by job count holds for RealSolver::solve() on
\* every list and for resolve() on lists of more than one record; resolve()
\* serves a one-record list inline, by neither solver.
C12_RoutingBeyondBypass ==
    (/\ engine \in {"bin", "async"}
     /\ engine = "async" => Len(ipl) > 1
     /\ njobs \in 1..MaxThreads
     /\ pc \notin {"start", "err"}) =>
        route = IF njobs = 1 THEN "simple" ELSE "parallel"

C12_Witness ==
    /\ engine = "bin"
    /\ njobs = MaxThreads
    /\ njobs > 1
    /\ route = "parallel"
    /\ Len(ipl) = 1
    /\ pc = "done"

\* C13: parallel_solve on an empty list, with a pool of at least one thread,
\* eventually returns, and returns the empty list: no thread waits for a
\* first record that never arrives.
C13_EmptyTerminates ==
    (pc = "parallel" /\ ipl = <<>> /\ njobs >= 1)
        ~> (pc = "done" /\ ret = "ok" /\ result = <<>>)

C13_Witness ==
    /\ engine = "iplist"
    /\ route = "parallel"
    /\ ipl = <<>>
    /\ njobs = 1
    /\ pc = "done"
    /\ result = <<>>
    /\ fpc = "exit"
    /\ fin = "exit"

\* C14: an empty list short-circuits in parallel_solve: the empty result is
\* returned without a pool, a feeder, a fan_out, a fan_in or a channel ever
\* being set up.
C14_EmptyShortCircuit ==
    (route = "parallel" /\ ipl = <<>> /\ njobs >= 1) =>
        /\ pc \in {"parallel", "done"}
        /\ fpc = "none"
        /\ fin = "none"

\* C15: resolve() called with an empty list returns the error "Empty list"
\* and never calls the capability, whatever the job count.
C15_EmptyIsError ==
    (engine \in {"async", "rayon"} /\ ipl = <<>>) =>
        /\ pc \in {"start", "err"}
        /\ pc = "err" => ret = "Empty list"
        /\ calls = 0
        /\ result = <<>>

C15_Witness ==
    /\ engine = "rayon"
    /\ res = "Fake"
    /\ ipl = <<>>
    /\ pc = "err"
    /\ ret = "Empty list"
    /\ calls = 0

\* C16: empty-success policy. solve() or resolve() called with an empty list
\* and a job count in 1..max_threads ends by returning the empty list, not
\* an error.
C16_EmptySucceeds ==
    (engine \in {"bin", "async"} /\ ipl = <<>> /\ njobs \in 1..MaxThreads
        /\ pc \in Terminal) =>
        /\ pc = "done"
        /\ ret = "ok"
        /\ result = <<>>

\* C17: the one-element bypass is unobservable. For a one-record list and a
\* job count in 1..max_threads, resolve() returns through the bypass exactly
\* when the capability returns for the record, and returns the list the
\* solvers, which only RealSolver and IpList run on a one-record list,
\* return for it: the resolved record, sorted.
C17_BypassUnobservable ==
    (Len(ipl) = 1 /\ njobs \in 1..MaxThreads /\ pc \in Terminal) =>
        /\ route = "bypass" =>
               /\ (pc = "done") = CapReturns
               /\ pc = "done" => result = Sort(Resolved(ipl))
        /\ route \in {"simple", "parallel", "rayon"} =>
               /\ engine \in {"iplist", "bin", "legacy"}
               /\ (pc = "done" /\ CapReturns) =>
                      result = Sort(Resolved(ipl))

C17_Witness ==
    /\ engine = "async"
    /\ res = "Null"
    /\ njobs = MaxThreads
    /\ njobs > 1
    /\ Len(ipl) = 1
    /\ route = "bypass"
    /\ pc = "done"
    /\ result = <<Ip(ipl[1].ip, to_string(ipl[1].ip))>>

\* C18: the rayon resolve() is sequential resolution followed by a sort. For
\* a non-empty list, in whatever order the parallel iterator maps the
\* records, a call that returns gives the records resolved one by one in
\* input order and then sorted, as many as the input has.
C18_RayonIsSortedMap ==
    (engine = "rayon" /\ ipl # <<>> /\ pc \in Terminal) =>
        /\ (pc = "done") = CapReturns
        /\ pc = "done" =>
               /\ ret = "ok"
               /\ calls = Len(ipl)
               /\ result = Sort([i \in 1..Len(ipl) |->
                                     SolverSolve(res, IpNew(parse(ipl[i]).val)).ip])

C18_Witness ==
    /\ engine = "rayon"
    /\ res = "Null"
    /\ route = "rayon"
    /\ pc = "done"
    /\ Len(ipl) = MaxLen
    /\ result # [i \in 1..Len(ipl) |-> slots[i]]

\* C19: every kind of Solver (Null, Fake, Sleep, Real) preserves the address:
\* the record solve() returns has the address of the record it was given,
\* whatever name that record carried; Null, Fake and Sleep always return.
C19_AddressPreserved ==
    (engine = "async" /\ pc # "cap") =>
        /\ res # "Real" => pc = "done"
        /\ pc = "done" => Len(result) = 1 /\ result[1].ip = ipl[1].ip

C19_Witness ==
    /\ engine = "async"
    /\ res = "Sleep"
    /\ pc = "done"
    /\ ipl[1] = Ip(A2001, "dumb.host.name")
    /\ result[1].ip = A2001

\* C20: names of the deterministic kinds of Solver. Whatever the input
\* address and input name, Null returns the address's text as name, and Fake
\* and Sleep return "some.host.invalid".
C20_DeterministicNames ==
    (engine = "async" /\ res \in {"Null", "Fake", "Sleep"}
        /\ pc # "cap") =>
        /\ pc = "done"
        /\ res = "Null" => result[1].name = to_string(ipl[1].ip)
        /\ res \in {"Fake", "Sleep"} => result[1].name = "some.host.invalid"

C20_Witness ==
    /\ engine = "async"
    /\ res = "Null"
    /\ pc = "done"
    /\ ipl[1] = Ip(A2001, "foo.bar.invalid")
    /\ result[1].name = "2001:db8::1"

\* C21: the input list is never mutated. No step of a resolution call
\* changes the caller's list, and the list the feeder sends from is a copy
\* equal to it.
C21_InputNotMutated ==
    [][ipl' = ipl /\ (fpc' # "none" => all' = ipl)]_vars

C21_Witness ==
    /\ engine = "iplist"
    /\ route = "parallel"
    /\ pc = "done"
    /\ Len(ipl) = MaxLen
    /\ all = ipl
    /\ fidx = Len(all)
    /\ \A i \in 1..Len(ipl) : ipl[i].name = ""
    /\ \A i \in 1..Len(result) : result[i].name # ""

\* C22: the sequential solver. simple_solve calls the capability once per
\* record, in input order, with no other thread, task or channel in use,
\* and returns the resolved records in canonical order.
C22_SimpleSolve ==
    route = "simple" =>
        /\ calls = Len(full) + lost
        /\ full = Resolved(SubSeq(ipl, 1, Len(full)))
        /\ fpc = "none" /\ fin = "none"
        /\ jobs = <<>> /\ busy = EmptyBag
        /\ ch_gen = <<>> /\ ch_out = <<>> /\ ch_fin = <<>>
        /\ pc = "done" =>
               /\ calls = Len(ipl)
               /\ result = Sort(Resolved(ipl))

\* The well-formed addresses.
ValidAddrs == {A1111, A192, A2001, A2606}

\* Occurrences of record r in list l.
CountRec(r, l) == Cardinality({i \in 1..Len(l) : l[i] = r})

\* C23: canonical order. Sorting puts the records of a list in a total
\* order by address, then by name, with every IPv4 address before every IPv6
\* address: the sorted list holds the same records, any two different
\* records are ordered one way and not the other, a record after another
\* has no smaller address and, at equal address, no smaller name; and the
\* resolved list [1.1.1.1, 2606:4700:4700::1111, 192.0.2.1] sorts to
\* 1.1.1.1, 192.0.2.1, 2606:4700:4700::1111.
C23_CanonicalOrder ==
    pc = "done" =>
        /\ Len(result) = Len(ipl)
        /\ \A k \in 1..Len(ipl) : CountRec(ipl[k], result) = CountRec(ipl[k], ipl)
        /\ \A i, j \in 1..Len(result) :
               /\ result[i] # result[j] =>
                      IpLess(result[i], result[j]) # IpLess(result[j], result[i])
               /\ i < j =>
                      /\ result[i].ip.fam <= result[j].ip.fam
                      /\ result[i].ip.fam = result[j].ip.fam =>
                             result[i].ip.num <= result[j].ip.num
                      /\ result[i].ip = result[j].ip =>
                             NameRank(result[i].name) <= NameRank(result[j].name)
        /\ ipl = <<Ip(A1111, "one.one.one.one"), Ip(A2606, "one.one.one.one"),
                   Ip(A192, "some.host.invalid")>> =>
               result = <<Ip(A1111, "one.one.one.one"),
                          Ip(A192, "some.host.invalid"),
                          Ip(A2606, "one.one.one.one")>>

C23_Witness ==
    /\ pc = "done"
    /\ ipl = <<Ip(A2606, "one.one.one.one"), Ip(A192, "some.host.invalid"),
               Ip(A192, "one.one.one.one")>>
    /\ result = <<Ip(A192, "one.one.one.one"), Ip(A192, "some.host.invalid"),
                  Ip(A2606, "one.one.one.one")>>

\* C25: record construction. Ip::new on a well-formed IPv4 or IPv6 literal
\* gives a record with the address the literal denotes and an empty name; on
\* a malformed literal it fails and adds no record; every record of the list
\* holds a well-formed address.
C25_IpNew ==
    /\ \A i \in 1..Len(ipl) :
           /\ ipl[i].ip \in ValidAddrs
           /\ to_string(ipl[i].ip) = all[i].lit
           /\ all[i].name = "" => ipl[i].name = ""
    /\ (pc = "panic") =
           (all # <<>> /\ all[Len(all)].lit \in {"333.0.0.0", "foobar"})
    /\ pc = "panic" => Len(ipl) = Len(all) - 1

C25_Witness ==
    /\ pc = "panic"
    /\ Len(ipl) = MaxLen - 1
    /\ all[Len(all)] = [lit |-> "foobar", name |-> ""]
    /\ ipl[1] = Ip(A2606, "")

\* C26: list construction keeps order and duplicates. A list built from k
\* literals or (literal, name) pairs has k records, the i-th with the i-th
\* address and the i-th name (the empty name for a bare literal): each push
\* appends one record at the end. is_empty holds exactly when len is 0.
C26_ListConstruction ==
    pc # "panic" =>
        /\ len(ipl) = Len(all)
        /\ \A i \in 1..Len(all) :
               /\ ipl[i].ip = parse(all[i].lit).val
               /\ ipl[i].name = all[i].name
        /\ is_empty(ipl) = (len(ipl) = 0)
        /\ is_empty(ipl) = (all = <<>>)

C26_Witness ==
    /\ pc = "build"
    /\ len(ipl) = MaxLen
    /\ ipl[1] = Ip(A192, "")
    /\ ipl[2] = Ip(A1111, "one.one.one.one")
    /\ ipl[MaxLen] = Ip(A192, "")
    /\ ~is_empty(ipl)

\* C24: InvalidAddress is never raised during resolution. Once resolve()
\* has been called, nothing in it fails because of a malformed literal: with
\* a Solver that cannot fail (Null, Fake, Sleep) the call never panics.
C24_NoInvalidAddress ==
    (engine \in {"async", "rayon"} /\ res # "Real") => pc # "panic"

\* C27: concurrency cap of the thread-based parallel_solve. At every moment
\* at most njobs records are being resolved, while fan_out queues one job
\* per input record on the pool.
C27_ThreadCap ==
    (engine \in {"iplist", "bin"} /\ route = "parallel") =>
        /\ BagCardinality(busy) <= njobs
        /\ Len(jobs) + BagCardinality(busy) <= issued
        /\ issued <= Len(ipl)
        /\ pc \in {"collect", "done"} => issued = Len(ipl)

C27_Witness ==
    /\ engine = "iplist"
    /\ route = "parallel"
    /\ njobs = 1
    /\ Len(ipl) = MaxLen
    /\ issued = MaxLen
    /\ BagCardinality(busy) = njobs
    /\ Len(jobs) = MaxLen - 1

\* C28: the task-based parallel_solve is bounded by the job count. At every
\* moment at most as many worker tasks exist as workers were requested.
C28_TaskCap ==
    (engine = "async" /\ route = "parallel" /\ njobs >= 1) =>
        BagCardinality(busy) + tparked <= njobs

\* The collector stage (fan_in and the caller's loop) has received a result
\* while the feeder still has records it has not sent.
Overlap ==
    /\ route = "parallel"
    /\ fpc = "run"
    /\ fidx < Len(all)
    /\ ch_fin # <<>> \/ full # <<>>

\* What the code does instead: fan_in is started only when fan_out has
\* received every record, so the collector never runs beside the feeder.
CollectorAfterFeeder == fin # "none" => fidx = Len(all)

C30_Backpressure ==
    (route = "parallel" /\ njobs >= 1) =>
        /\ Len(ch_gen) <= njobs
        /\ Len(ch_out) <= njobs

\* C31: no channel operation fails in the thread-based pipeline. With a pool
\* of at least one thread and a capability that returns for every record, in
\* every interleaving the feeder's sends, fan_out's recvs, the workers'
\* sends and fan_in's sends succeed: no thread panics, no job is lost.
C31_NoChannelFailure ==
    (engine \in {"iplist", "bin"} /\ route = "parallel" /\ njobs >= 1
        /\ CapReturns) =>
        /\ pc # "panic"
        /\ fpc # "panic"
        /\ fin # "panic"
        /\ lost = 0
        /\ fidx <= fo_i + Len(ch_gen)
        /\ pc = "done" => (fpc = "exit" \/ fidx = Len(all)) /\ fin = "exit"

C31_Witness ==
    /\ engine = "iplist"
    /\ route = "parallel"
    /\ njobs = 1
    /\ CapReturns
    /\ Len(ipl) = MaxLen
    /\ pc = "done"
    /\ fpc = "run"
    /\ fin = "exit"
    /\ calls = MaxLen

\* C32: the task version's fan_out cannot deadlock. While fan_out awaits
\* the worker tasks nothing drains the second channel, yet no worker's send
\* parks (the channel holds as many results as the list has records);
\* fan_out returns only after the feeder has closed the first channel; and
\* from then on the collector receives exactly as many results as the list
\* has records and then the end of the stream, so the call returns.
C32_FanOutNoDeadlock ==
    /\ []((engine = "async" /\ CapReturns) =>
            /\ tparked = 0
            /\ pc \in {"fan_out", "join"} => ch_fin = <<>> /\ full = <<>>
            /\ pc \in {"join", "collect", "done"} /\ route = "parallel" =>
                  fpc = "exit" /\ ch_gen = <<>>
            /\ pc = "collect" =>
                  Len(full) + Len(ch_fin) + Len(ch_out) = Len(ipl)
            /\ pc = "done" /\ route = "parallel" =>
                  Len(result) = Len(ipl) /\ fin = "exit")
    /\ (engine = "async" /\ pc = "fan_out" /\ CapReturns)
          ~> (pc = "done" /\ Len(result) = Len(ipl) /\ fin = "exit")

C32_Witness ==
    /\ engine = "async"
    /\ CapReturns
    /\ pc = "join"
    /\ Len(ipl) = MaxLen
    /\ Len(ch_out) = MaxLen
    /\ ch_fin = <<>>
    /\ fpc = "exit"
    /\ tparked = 0

\* C33: a job count of 0 passes the job-count check and is routed to the
\* parallel engine, not to the sequential engine and not to an error return,
\* by both dispatchers and for every list.
C33_ZeroJobsParallel ==
    (engine \in {"bin", "async"} /\ njobs = 0 /\ pc # "start") =>
        /\ route = "parallel"
        /\ pc # "err"

\* C33 as the code has it: a job count of 0 is never refused as too many.
\* RealSolver::solve() routes it to the parallel engine for every list;
\* resolve() does so for a list of more than one record, after having
\* answered the empty list with the empty-list error and the one-record
\* list with the bypass.
C33_ZeroJobsBeyondBypass ==
    (engine \in {"bin", "async"} /\ njobs = 0 /\ pc # "start") =>
        /\ ret # "Too many threads"
        /\ route # "simple"
        /\ (engine = "bin" \/ Len(ipl) > 1) => route = "parallel" /\ pc # "err"
        /\ (engine = "async" /\ Len(ipl) = 1) => route = "bypass"
        /\ (engine = "async" /\ ipl = <<>>) =>
              pc = "err" /\ ret = "Empty list" /\ route = "none"

C33_Witness ==
    /\ engine = "async"
    /\ njobs = 0
    /\ Len(ipl) = 2
    /\ route = "parallel"
    /\ pc = "fan_out"

\* C34: order of resolve()'s checks. The empty-list check comes first, then
\* the job-count check, then the one-element bypass: with a job count above
\* the limit, the empty list is answered with the empty-list error, and a
\* one-element list with the too-many-jobs error, its record not resolved.
C34_CheckOrder ==
    (engine = "async" /\ njobs > MaxThreads /\ pc # "start") =>
        /\ pc = "err"
        /\ calls = 0
        /\ result = <<>>
        /\ route \notin {"bypass", "simple", "parallel"}
        /\ ret = IF ipl = <<>> THEN "Empty list" ELSE "Too many threads"

C34_Witness ==
    /\ engine = "async"
    /\ njobs > MaxThreads
    /\ Len(ipl) = 1
    /\ pc = "err"
    /\ ret = "Too many threads"
    /\ calls = 0

\* C35: a job count above the limit is refused with an error by every
\* Resolver's solve(), DumbSolver's included.
C35_DumbRejectsJobs ==
    (engine \in {"bin", "dumb"} /\ njobs > MaxThreads /\ pc # "start") =>
        /\ pc = "err"
        /\ ret = "Too many threads"

\* C36: check_for_files is an order-preserving filter. What it returns is
\* the sub-sequence of the paths handed over that exist on disk or are "-",
\* in the order they were given, nothing added; the list handed over is
\* left as it was.
C36_OrderPreservingFilter ==
    LET Kept(f) == f \in OnDisk \/ f = "-"
    IN  /\ ipl = all
        /\ pc = "check" => full = SelectSeq(SubSeq(all, 1, fidx), Kept)
        /\ pc = "done" => result = SelectSeq(all, Kept)

C36_Witness ==
    /\ pc = "done"
    /\ all = <<"foo", "-", "Cargo.toml">>
    /\ ipl = all
    /\ result = <<"-", "Cargo.toml">>

\* C37: the input type is found from the file name whatever the case of the
\* extension, and for every name: csv gives Csv, zip gives Zip, txt and xml
\* give Xml, gz gives Gzip unless the name ends in .tar.gz (then TarGzip),
\* tgz gives TarGzip, a name with no extension gives Xml, every other
\* extension gives Unknown; valid() is false exactly for Unknown. The names
\* of the tests give what the tests expect.
C37_InputDetection ==
    LET n == all
        last == n[Len(n)]
        NoExt == \/ Len(n) = 1
                 \/ Len(n) = 2 /\ n[1] = ""
                 \/ (Len(n) = 3 /\ \A i \in 1..3 : n[i] = "")
        TarGz == Len(n) >= 3 /\ n[Len(n) - 1] \in {"tar", "TAR"}
        Expected ==
            CASE NoExt -> "Xml"
              [] ~NoExt /\ last \in {"csv", "CSV"} -> "Csv"
              [] ~NoExt /\ last \in {"zip", "ZIP"} -> "Zip"
              [] ~NoExt /\ last \in {"txt", "XML"} -> "Xml"
              [] ~NoExt /\ last = "tGZ" -> "TarGzip"
              [] ~NoExt /\ last \in {"gz", "Gz", "GZ"} /\ TarGz -> "TarGzip"
              [] ~NoExt /\ last \in {"gz", "Gz", "GZ"} /\ ~TarGz -> "Gzip"
              [] OTHER -> "Unknown"
        Tests ==
            {<<<<"foo">>, "Xml">>, <<<<"foo", "txt">>, "Xml">>,
             <<<<"foo", "zip">>, "Zip">>, <<<<"foo", "ZIP">>, "Zip">>,
             <<<<"foo", "gz">>, "Gzip">>, <<<<"foo", "Gz">>, "Gzip">>,
             <<<<"foo", "GZ">>, "Gzip">>, <<<<"foo", "TAR", "gz">>, "TarGzip">>,
             <<<<"foo", "XML">>, "Xml">>, <<<<"foo", "csv">>, "Csv">>,
             <<<<"foo", "CSV">>, "Csv">>, <<<<"foo", "tar", "GZ">>, "TarGzip">>,
             <<<<"foo", "tGZ">>, "TarGzip">>, <<<<"foo", "bar">>, "Unknown">>}
    IN  (engine = "filetype" /\ pc \in {"typed", "done"}) =>
            /\ ret \in Inputs
            /\ ret = Expected
            /\ \A t \in Tests : n = t[1] => ret = t[2]
            /\ pc = "done" => result = <<ret # "Unknown">>

C37_Witness ==
    /\ engine = "filetype"
    /\ pc = "done"
    /\ all = <<"foo", "tar", "GZ">>
    /\ ret = "TarGzip"
    /\ result = <<TRUE>>

====
